---- MODULE Spec2Model ----
(***************************************************************************)
(* Model of the V2 decision core of the ValueBooks e-mail system:          *)
(* DailyVolumeCalculator.calculate_budget and SmartTargetingEngine         *)
(* (determine_email_type, calculate_priority_score, build_priority_queue)  *)
(* of smart_mailer_v2.py.                                                  *)
(*                                                                         *)
(* Python floats are IEEE-754 binary64 numbers.  They are modelled bit for *)
(* bit: a float is a sign, a 53-bit significand kept as a sequence of      *)
(* base-1024 limbs (least significant first), and a binary exponent; every *)
(* operation computes the exact result and rounds it to nearest-even, as   *)
(* the hardware does.  Exponent overflow/underflow, NaN and infinities do  *)
(* not occur for the magnitudes handled here and are not modelled.         *)
(***************************************************************************)
EXTENDS Integers, Sequences, FiniteSets, TLC

(***************************************************************************)
(* Unbounded naturals as limb sequences (TLC integers are 32-bit).         *)
(***************************************************************************)
Base == 32 * 32

RECURSIVE Pow2(_)
Pow2(n) == IF n = 0 THEN 1 ELSE 2 * Pow2(n - 1)

Abs(n) == IF n < 0 THEN -n ELSE n

RECURSIVE BigNorm(_)
BigNorm(a) ==
    IF a = <<>> THEN <<>>
    ELSE IF a[Len(a)] = 0 THEN BigNorm(SubSeq(a, 1, Len(a) - 1))
    ELSE a

RECURSIVE BigFromInt(_)
BigFromInt(n) == IF n = 0 THEN <<>> ELSE <<n % Base>> \o BigFromInt(n \div Base)

RECURSIVE BigToInt(_)
BigToInt(a) == IF a = <<>> THEN 0 ELSE a[1] + Base * BigToInt(Tail(a))

Limb(a, i) == IF i <= Len(a) THEN a[i] ELSE 0

RECURSIVE BigAddC(_, _, _, _)
BigAddC(a, b, i, c) ==
    IF i > Len(a) /\ i > Len(b)
    THEN (IF c = 0 THEN <<>> ELSE <<c>>)
    ELSE LET s == Limb(a, i) + Limb(b, i) + c
         IN  <<s % Base>> \o BigAddC(a, b, i + 1, s \div Base)

BigAdd(a, b) == BigAddC(a, b, 1, 0)

\* a - b for a >= b
RECURSIVE BigSubC(_, _, _, _)
BigSubC(a, b, i, c) ==
    IF i > Len(a) THEN <<>>
    ELSE LET s == Limb(a, i) - Limb(b, i) - c
         IN  IF s < 0 THEN <<s + Base>> \o BigSubC(a, b, i + 1, 1)
                      ELSE <<s>> \o BigSubC(a, b, i + 1, 0)

BigSub(a, b) == BigNorm(BigSubC(a, b, 1, 0))

\* -1, 0, 1 as a < b, a = b, a > b (both normalised)
RECURSIVE BigCmpAt(_, _, _)
BigCmpAt(a, b, i) ==
    IF i = 0 THEN 0
    ELSE IF a[i] < b[i] THEN -1
    ELSE IF a[i] > b[i] THEN 1
    ELSE BigCmpAt(a, b, i - 1)

BigCmp(a, b) ==
    IF Len(a) < Len(b) THEN -1
    ELSE IF Len(a) > Len(b) THEN 1
    ELSE BigCmpAt(a, b, Len(a))

\* a * k for a small k (k * Base must fit an integer)
RECURSIVE BigMulSmallC(_, _, _, _)
BigMulSmallC(a, k, i, c) ==
    IF i > Len(a) THEN BigFromInt(c)
    ELSE LET s == a[i] * k + c
         IN  <<s % Base>> \o BigMulSmallC(a, k, i + 1, s \div Base)

BigMulSmall(a, k) == BigNorm(BigMulSmallC(a, k, 1, 0))

Zeros(n) == [j \in 1..n |-> 0]

RECURSIVE BigMulAcc(_, _, _)
BigMulAcc(a, b, i) ==
    IF i > Len(a) THEN <<>>
    ELSE BigAdd(Zeros(i - 1) \o BigMulSmallC(b, a[i], 1, 0), BigMulAcc(a, b, i + 1))

BigMul(a, b) == BigNorm(BigMulAcc(a, b, 1))

\* quotient and remainder of a by a small d (d * Base must fit an integer)
RECURSIVE BigDivRem(_, _, _, _)
BigDivRem(a, d, i, r) ==
    IF i = 0 THEN [q |-> <<>>, r |-> r]
    ELSE LET cur  == r * Base + a[i]
             rest == BigDivRem(a, d, i - 1, cur % d)
         IN  [q |-> rest.q \o <<cur \div d>>, r |-> rest.r]

BigDivSmall(a, d) ==
    LET x == BigDivRem(a, d, Len(a), 0) IN [q |-> BigNorm(x.q), r |-> x.r]

RECURSIVE BitLenInt(_)
BitLenInt(n) == IF n = 0 THEN 0 ELSE 1 + BitLenInt(n \div 2)

BigBitLen(a) == IF a = <<>> THEN 0 ELSE 10 * (Len(a) - 1) + BitLenInt(a[Len(a)])

BigShl(a, s) ==
    IF a = <<>> THEN <<>>
    ELSE Zeros(s \div 10) \o BigMulSmall(a, Pow2(s % 10))

BigShr(a, s) ==
    IF s \div 10 >= Len(a) THEN <<>>
    ELSE BigDivSmall(SubSeq(a, (s \div 10) + 1, Len(a)), Pow2(s % 10)).q

BigIsOdd(a) == a # <<>> /\ a[1] % 2 = 1

\* a / 2^s rounded to the nearest integer, ties to even
BigShrRound(a, s) ==
    IF s = 0 THEN a
    ELSE LET q    == BigShr(a, s)
             rem  == BigSub(a, BigShl(q, s))
             half == BigShl(<<1>>, s - 1)
             c    == BigCmp(rem, half)
         IN  IF c > 0 \/ (c = 0 /\ BigIsOdd(q)) THEN BigAdd(q, <<1>>) ELSE q

(***************************************************************************)
(* binary64 values: [s |-> 0 or 1, m |-> 53-bit significand, e |-> exp],   *)
(* value (-1)^s * m * 2^e; zero is m = <<>>, e = 0, s = 0.                 *)
(***************************************************************************)
FZero == [s |-> 0, m |-> <<>>, e |-> 0]

\* the float nearest to (-1)^s * M * 2^E
FRound(s, M, E) ==
    LET bl == BigBitLen(M)
    IN  IF bl = 0 THEN FZero
        ELSE IF bl <= 53 THEN [s |-> s, m |-> BigShl(M, 53 - bl), e |-> E - (53 - bl)]
        ELSE LET q == BigShrRound(M, bl - 53)
             IN  IF BigBitLen(q) > 53
                 THEN [s |-> s, m |-> BigShr(q, 1), e |-> E + (bl - 53) + 1]
                 ELSE [s |-> s, m |-> q, e |-> E + (bl - 53)]

FFromInt(n) == FRound(IF n < 0 THEN 1 ELSE 0, BigFromInt(Abs(n)), 0)

\* the float nearest to n / d (int / int true division, or a decimal literal)
FFromRatio(n, d) ==
    IF n = 0 THEN FZero
    ELSE LET a  == BigFromInt(Abs(n))
             sh == 56 + BitLenInt(d)
             x  == BigDivSmall(BigShl(a, sh), d)
             M  == BigAdd(BigMulSmall(x.q, 2), IF x.r = 0 THEN <<>> ELSE <<1>>)
         IN  FRound(IF n < 0 THEN 1 ELSE 0, M, -(sh + 1))

FMul(x, y) ==
    IF x.m = <<>> \/ y.m = <<>> THEN FZero
    ELSE FRound((x.s + y.s) % 2, BigMul(x.m, y.m), x.e + y.e)

FNeg(x) == IF x.m = <<>> THEN x ELSE [x EXCEPT !.s = 1 - x.s]

FAdd(x, y) ==
    IF x.m = <<>> THEN y
    ELSE IF y.m = <<>> THEN x
    ELSE LET e  == IF x.e < y.e THEN x.e ELSE y.e
             Mx == BigShl(x.m, x.e - e)
             My == BigShl(y.m, y.e - e)
             c  == BigCmp(Mx, My)
         IN  IF x.s = y.s THEN FRound(x.s, BigAdd(Mx, My), e)
             ELSE IF c = 0 THEN FZero
             ELSE IF c > 0 THEN FRound(x.s, BigSub(Mx, My), e)
             ELSE FRound(y.s, BigSub(My, Mx), e)

FSub(x, y) == FAdd(x, FNeg(y))

FSign(x) == IF x.m = <<>> THEN 0 ELSE IF x.s = 1 THEN -1 ELSE 1

\* -1, 0, 1 as x < y, x = y, x > y (significands are normalised to 53 bits)
FCmp(x, y) ==
    IF FSign(x) # FSign(y) THEN (IF FSign(x) < FSign(y) THEN -1 ELSE 1)
    ELSE IF FSign(x) = 0 THEN 0
    ELSE FSign(x) * (IF x.e < y.e THEN -1 ELSE IF x.e > y.e THEN 1 ELSE BigCmp(x.m, y.m))

\* int(x): truncation toward zero
FTrunc(x) ==
    IF x.m = <<>> THEN 0
    ELSE LET mag == IF x.e >= 0 THEN BigShl(x.m, x.e) ELSE BigShr(x.m, -x.e)
         IN  IF x.s = 1 THEN -BigToInt(mag) ELSE BigToInt(mag)

(***************************************************************************)
(* Data model.  Decimal inputs are kept as the decimal literal read from   *)
(* the JSON/CSV file (capacity_usage in thousandths, multipliers and debt  *)
(* ratios in tenths) and converted to the float Python parses them to.     *)
(* Dates are day numbers.                                                  *)
(***************************************************************************)
VARIABLES
    warehouse,      \* WarehouseContext
    config,         \* the configuration dictionary given to DailyVolumeCalculator
    customers,      \* the roster: a sequence of CustomerProfile records
    clock,          \* the wall clock (datetime.now()), in days
    pc,             \* position of the pipeline
    budget,         \* result of calculate_budget
    today,          \* SmartTargetingEngine.today
    decisions,      \* build_priority_queue: the list `decisions`
    filtered,       \* build_priority_queue: the list `filtered`
    idx,            \* build_priority_queue: position of the second loop
    debt_count,
    credit_count,
    result,         \* return value of determine_email_type (classification runs)
    run,            \* number of the current pipeline run (1 or 2)
    first,          \* what the first run saw and returned
    df,             \* the rows read from the customer CSV file (a DataFrame)
    target_applications,  \* optimizer: the number of applications asked for
    conversion_rates,     \* optimizer: the ConversionRate given to the extraction
    selected_indices,     \* optimizer: extract_target_customers, the list selected_indices
    cumulative_expected,  \* optimizer: extract_target_customers, the running sum
    summary               \* optimizer: the summary extract_target_customers returns

\* the state of the target-count extraction (optimizer.py)
optimizer_vars ==
    <<target_applications, conversion_rates, selected_indices, cumulative_expected, summary>>

vars == <<warehouse, config, customers, clock, pc, budget, today, decisions,
          filtered, idx, debt_count, credit_count, result, run, first, df, optimizer_vars>>

\* WarehouseContext properties
is_emergency(w) == w.emergency_level >= 4

\* mutant: critical taken to start at level 4
is_critical_from4(w) == w.emergency_level >= 4

is_critical(w)  == w.emergency_level = 5
is_relaxed(w)   == w.emergency_level <= 2

\* str(emergency_level), the key of the JSON multiplier table
LevelKey(l) ==
    CASE l = 1 -> "1" [] l = 2 -> "2" [] l = 3 -> "3" [] l = 4 -> "4"
      [] l = 5 -> "5" [] OTHER -> "?"

\* dict.get(key, default); a dictionary is a function on the keys it holds
Get(d, key, default) == IF key \in DOMAIN d THEN d[key] ELSE default

EmptyDict == [x \in {} |-> 0]

DefaultBaseDailyEmails == 500
DefaultMaxDailyEmails  == 2000
DefaultMinDailyEmails  == 0
DefaultMultiplierTenths == 10

\* Python's max(a, b) and min(a, b) on floats: the first argument unless the
\* second is strictly greater (smaller)
PyMax(a, b) == IF FCmp(b, a) > 0 THEN b ELSE a
PyMin(a, b) == IF FCmp(b, a) < 0 THEN b ELSE a

\* mutant: the relaxed branch is missing, levels 1 and 2 get the normal ratio
DebtRatioTenthsNoRelaxed(w) ==
    IF is_critical(w) THEN 8
    ELSE IF is_emergency(w) THEN 6
    ELSE 4

\* debt_ratio, in tenths
DebtRatioTenths(w) ==
    IF is_critical(w) THEN 8
    ELSE IF is_emergency(w) THEN 6
    ELSE IF is_relaxed(w) THEN 2
    ELSE 4

DebtRatio(w) == FFromRatio(DebtRatioTenths(w), 10)

CapacityFactor(w) == FSub(FFromInt(1), FFromRatio(w.capacity_usage, 1000))

EmergencyMult(w, cfg) ==
    LET formula     == Get(cfg, "email_budget_formula", EmptyDict)
        multipliers == Get(formula, "emergency_multipliers", EmptyDict)
    IN  FFromRatio(Get(multipliers, LevelKey(w.emergency_level), DefaultMultiplierTenths), 10)

RawBudget(w, cfg) ==
    LET formula == Get(cfg, "email_budget_formula", EmptyDict)
        base    == Get(formula, "base_daily_emails", DefaultBaseDailyEmails)
    IN  FMul(FMul(FFromInt(base), CapacityFactor(w)), EmergencyMult(w, cfg))

\* mutant: the clipping to [min_daily_emails, max_daily_emails] is left out
TotalBudgetUnclamped(w, cfg) == FTrunc(RawBudget(w, cfg))

TotalBudget(w, cfg) ==
    LET formula    == Get(cfg, "email_budget_formula", EmptyDict)
        max_emails == Get(formula, "max_daily_emails", DefaultMaxDailyEmails)
        min_emails == Get(formula, "min_daily_emails", DefaultMinDailyEmails)
    IN  FTrunc(PyMin(PyMax(RawBudget(w, cfg), FFromInt(min_emails)), FFromInt(max_emails)))

DebtBudget(b, w) == FTrunc(FMul(FFromInt(b), DebtRatio(w)))

CreditBudget(b, w) == FTrunc(FMul(FFromInt(b), FSub(FFromInt(1), DebtRatio(w))))

calculate_budget(w, cfg) ==
    LET b == TotalBudget(w, cfg)
    IN  [total_budget    |-> b,
         debt_budget     |-> DebtBudget(b, w),
         credit_budget   |-> CreditBudget(b, w),
         emergency_level |-> w.emergency_level]

(***************************************************************************)
(* Inputs of the budget runs: warehouses and configuration dictionaries.   *)
(***************************************************************************)
CapacityUsages == {-500, 0, 120, 280, 333, 500, 750, 920, 1000, 1200}

EmergencyLevels == 1..5

SlackDayLists == {<<>>, <<8, 9>>}

\* SCENARIOS[...]["config"]["email_budget_formula"]["emergency_multipliers"]
ScenarioMultipliers ==
    ("1" :> 5) @@ ("2" :> 8) @@ ("3" :> 10) @@ ("4" :> 15) @@ ("5" :> 25)

PartialMultipliers == ("4" :> 15) @@ ("5" :> 25)

\* SCENARIOS[...]["config"]
ScenarioConfig ==
    "email_budget_formula" :>
        (("base_daily_emails" :> 500) @@ ("emergency_multipliers" :> ScenarioMultipliers)
         @@ ("max_daily_emails" :> 2000) @@ ("min_daily_emails" :> 0))

\* an optional key: o is <<>> (absent) or <<value>>
Opt(key, o) == IF o = <<>> THEN EmptyDict ELSE (key :> o[1])

Formulas ==
    { Opt("base_daily_emails", b) @@ Opt("emergency_multipliers", m)
        @@ Opt("max_daily_emails", mx) @@ Opt("min_daily_emails", mn) :
        b \in {<<>>, <<7>>}, m \in {<<>>, <<PartialMultipliers>>},
        mx \in {<<>>, <<4>>, <<1000>>}, mn \in {<<>>, <<2>>} }

Configs == {EmptyDict, ScenarioConfig} \cup { "email_budget_formula" :> f : f \in Formulas }

Warehouses ==
    [capacity_usage : CapacityUsages, emergency_level : EmergencyLevels,
     slack_days : SlackDayLists]

NoBudget == [total_budget |-> -1, debt_budget |-> -1, credit_budget |-> -1,
             emergency_level |-> 0]

NoResult == [email_type |-> "none", reason |-> [text |-> "", n |-> 0, detail |-> "", detail_n |-> 0]]

\* no CSV rows read and no extraction under way
NoRows ==
    /\ df = <<>>
    /\ target_applications = 0
    /\ conversion_rates = <<>>
    /\ selected_indices = <<>>
    /\ cumulative_expected = FZero
    /\ summary = <<>>

Idle ==
    /\ customers = <<>>
    /\ clock = 0
    /\ today = 0
    /\ decisions = <<>>
    /\ filtered = <<>>
    /\ idx = 0
    /\ debt_count = 0
    /\ credit_count = 0
    /\ result = NoResult
    /\ run = 1
    /\ first = <<>>
    /\ NoRows

\* calculate_budget over the inputs of the runs, computed once (slack_days is not read)
BudgetTable ==
    [cu \in CapacityUsages |-> [lv \in EmergencyLevels |-> [cfg \in Configs |->
        calculate_budget([capacity_usage |-> cu, emergency_level |-> lv,
                          slack_days |-> <<>>], cfg)]]]

\* volume_calc = DailyVolumeCalculator(warehouse, config); budget = volume_calc.calculate_budget()
CalculateBudget ==
    /\ pc = "start"
    /\ budget' = BudgetTable[warehouse.capacity_usage][warehouse.emergency_level][config]
    /\ pc' = "budgeted"
    /\ UNCHANGED <<warehouse, config, customers, clock, today, decisions, filtered,
                   idx, debt_count, credit_count, result, run, first,
                   df, optimizer_vars>>

(***************************************************************************)
(* EmailType, QualityTier and the classifier of SmartTargetingEngine.      *)
(* activity_type: "buyback_main" is the CSV value 買取メイン, "purchase_main" *)
(* is 購入メイン, "both_active" is 両方活発.  A reason is the text of the     *)
(* f-string with the number it formats (n) and, for the urgent types, the  *)
(* solicitation reason it embeds (detail, detail_n).                       *)
(***************************************************************************)
EmailTypes == {"URGENT_KAITORI", "NORMAL_KAITORI", "GIFT_POINTS", "GIFT_INFO",
               "NEWS_STORY", "THANK_YOU", "PURCHASE_PROMO", "SKIP"}

Category(t) ==
    CASE t \in {"URGENT_KAITORI", "NORMAL_KAITORI"} -> "debt"
      [] t \in {"GIFT_POINTS", "GIFT_INFO", "NEWS_STORY", "THANK_YOU"} -> "credit"
      [] OTHER -> "neutral"

BalanceImpact(t) ==
    CASE t = "URGENT_KAITORI" -> -15
      [] t = "NORMAL_KAITORI" -> -8
      [] t = "GIFT_POINTS"    -> 20
      [] t = "GIFT_INFO"      -> 10
      [] t = "NEWS_STORY"     -> 5
      [] t = "THANK_YOU"      -> 12
      [] t = "PURCHASE_PROMO" -> -3
      [] OTHER                -> 0

QualityTiers == {"A", "B", "C", "D"}

Reason(text, n) == [text |-> text, n |-> n, detail |-> "", detail_n |-> 0]

MinEmailInterval   == 7
MinBalance         == -20
MinSolicitInterval == 14
MaxGiftAge         == 60
PointsBalance      == -15
ThankYouGiftAge    == 90

\* mutant: the age of a date is taken from the wall clock, not from self.today
DaysSinceWallClock(t, date) == clock - date

\* (self.today - date).days
DaysSince(t, date) == t - date

is_eligible_for_solicitation(c, w, t) ==
    IF c.quality_tier = "D"
    THEN IF is_critical(w)
         THEN [ok |-> TRUE,  reason |-> Reason("critical: tier D exceptionally", 0)]
         ELSE [ok |-> FALSE, reason |-> Reason("tier D: not sent", 0)]
    ELSE IF c.quality_tier = "C"
    THEN IF is_emergency(w)
         THEN [ok |-> TRUE,  reason |-> Reason("emergency: tier C sent", 0)]
         ELSE [ok |-> FALSE, reason |-> Reason("tier C: emergency only", 0)]
    ELSE IF c.engagement_balance < MinBalance
    THEN [ok |-> FALSE, reason |-> Reason("balance too low", c.engagement_balance)]
    ELSE IF DaysSince(t, c.last_solicitation) < MinSolicitInterval
    THEN IF is_critical(w)
         THEN [ok |-> TRUE,  reason |-> Reason("critical: short interval sent", 0)]
         ELSE [ok |-> FALSE,
               reason |-> Reason("days since solicitation: too short",
                                 DaysSince(t, c.last_solicitation))]
    ELSE [ok |-> TRUE, reason |-> Reason("sendable", 0)]

\* mutant: a negative balance does not ask for credit first
needs_credit_first_gift_only(c, t) ==
    IF DaysSince(t, c.last_gift) > MaxGiftAge
    THEN [ok |-> TRUE,
          reason |-> Reason("days since gift: time to thank", DaysSince(t, c.last_gift))]
    ELSE [ok |-> FALSE, reason |-> Reason("balance fine", 0)]

needs_credit_first(c, t) ==
    IF c.engagement_balance < 0
    THEN [ok |-> TRUE, reason |-> Reason("balance negative: gift first", c.engagement_balance)]
    ELSE IF DaysSince(t, c.last_gift) > MaxGiftAge
    THEN [ok |-> TRUE,
          reason |-> Reason("days since gift: time to thank", DaysSince(t, c.last_gift))]
    ELSE [ok |-> FALSE, reason |-> Reason("balance fine", 0)]

\* mutant: the thank-you rule is tried before the points rule
select_credit_email_thanks_first(c, t) ==
    IF DaysSince(t, c.last_gift) > ThankYouGiftAge THEN "THANK_YOU"
    ELSE IF c.engagement_balance < PointsBalance THEN "GIFT_POINTS"
    ELSE IF c.activity_type = "purchase_main" THEN "GIFT_INFO"
    ELSE "NEWS_STORY"

select_credit_email(c, t) ==
    IF c.engagement_balance < PointsBalance THEN "GIFT_POINTS"
    ELSE IF DaysSince(t, c.last_gift) > ThankYouGiftAge THEN "THANK_YOU"
    ELSE IF c.activity_type = "purchase_main" THEN "GIFT_INFO"
    ELSE "NEWS_STORY"

\* mutant: a normal buyback request does not need a slack day
select_email_type_no_slack_needed(c, w, t) ==
    LET credit  == needs_credit_first(c, t)
        solicit == is_eligible_for_solicitation(c, w, t)
    IN  IF credit.ok /\ ~is_critical(w)
        THEN [email_type |-> select_credit_email(c, t), reason |-> credit.reason]
        ELSE IF /\ is_emergency(w)
                /\ c.activity_type \in {"buyback_main", "both_active"}
                /\ solicit.ok
        THEN [email_type |-> "URGENT_KAITORI",
              reason |-> [text     |-> IF is_critical(w) THEN "critical + " ELSE "emergency + ",
                          n        |-> 0,
                          detail   |-> solicit.reason.text,
                          detail_n |-> solicit.reason.n]]
        ELSE IF c.activity_type = "purchase_main"
        THEN [email_type |-> "PURCHASE_PROMO", reason |-> Reason("purchase-leaning customer", 0)]
        ELSE IF solicit.ok
        THEN [email_type |-> "NORMAL_KAITORI", reason |-> Reason("slack period: buyback", 0)]
        ELSE [email_type |-> select_credit_email(c, t),
              reason |-> Reason("information to maintain the relationship", 0)]

\* mutant: the normal buyback rule is tried before the purchase-promotion rule
select_email_type_buyback_before_promo(c, w, t) ==
    LET credit  == needs_credit_first(c, t)
        solicit == is_eligible_for_solicitation(c, w, t)
    IN  IF credit.ok /\ ~is_critical(w)
        THEN [email_type |-> select_credit_email(c, t), reason |-> credit.reason]
        ELSE IF /\ is_emergency(w)
                /\ c.activity_type \in {"buyback_main", "both_active"}
                /\ solicit.ok
        THEN [email_type |-> "URGENT_KAITORI",
              reason |-> [text     |-> IF is_critical(w) THEN "critical + " ELSE "emergency + ",
                          n        |-> 0,
                          detail   |-> solicit.reason.text,
                          detail_n |-> solicit.reason.n]]
        ELSE IF solicit.ok /\ Len(w.slack_days) > 0
        THEN [email_type |-> "NORMAL_KAITORI", reason |-> Reason("slack period: buyback", 0)]
        ELSE IF c.activity_type = "purchase_main"
        THEN [email_type |-> "PURCHASE_PROMO", reason |-> Reason("purchase-leaning customer", 0)]
        ELSE [email_type |-> select_credit_email(c, t),
              reason |-> Reason("information to maintain the relationship", 0)]

\* determine_email_type below the interval check (rules 2 to 5 of the source)
select_email_type(c, w, t) ==
    LET credit  == needs_credit_first(c, t)
        solicit == is_eligible_for_solicitation(c, w, t)
    IN  IF credit.ok /\ ~is_critical(w)
        THEN [email_type |-> select_credit_email(c, t), reason |-> credit.reason]
        ELSE IF /\ is_emergency(w)
                /\ c.activity_type \in {"buyback_main", "both_active"}
                /\ solicit.ok
        THEN [email_type |-> "URGENT_KAITORI",
              reason |-> [text     |-> IF is_critical(w) THEN "critical + " ELSE "emergency + ",
                          n        |-> 0,
                          detail   |-> solicit.reason.text,
                          detail_n |-> solicit.reason.n]]
        ELSE IF c.activity_type = "purchase_main"
        THEN [email_type |-> "PURCHASE_PROMO", reason |-> Reason("purchase-leaning customer", 0)]
        ELSE IF solicit.ok /\ Len(w.slack_days) > 0
        THEN [email_type |-> "NORMAL_KAITORI", reason |-> Reason("slack period: buyback", 0)]
        ELSE [email_type |-> select_credit_email(c, t),
              reason |-> Reason("information to maintain the relationship", 0)]

\* mutant: a critical warehouse overrides the e-mail interval as it does the
\* solicitation interval
determine_email_type_critical_override(c, w, t) ==
    IF c.days_since_last_email < MinEmailInterval /\ ~is_critical(w)
    THEN [email_type |-> "SKIP",
          reason |-> Reason("days since last email: too short", c.days_since_last_email)]
    ELSE select_email_type(c, w, t)

determine_email_type(c, w, t) ==
    IF c.days_since_last_email < MinEmailInterval
    THEN [email_type |-> "SKIP",
          reason |-> Reason("days since last email: too short", c.days_since_last_email)]
    ELSE select_email_type(c, w, t)

(***************************************************************************)
(* calculate_priority_score.  open_rate and response_rate are the CSV      *)
(* decimals in hundredths; priority weights are in tenths.                 *)
(***************************************************************************)
PriorityWeightTenths(tier) ==
    CASE tier = "A" -> 10 [] tier = "B" -> 8 [] tier = "C" -> 4 [] OTHER -> 0

priority_weight(tier) == FFromRatio(PriorityWeightTenths(tier), 10)

\* round(x, 2): the exact value of x rounded to two decimals (ties to even),
\* then the float nearest to that decimal
PyRound2(x) ==
    IF x.m = <<>> THEN FZero
    ELSE IF x.e >= 0 THEN x
    ELSE LET n == BigToInt(BigShrRound(BigMulSmall(x.m, 100), -x.e))
         IN  FFromRatio(IF x.s = 1 THEN -n ELSE n, 100)

\* mutant: the balance component is not clipped to [0, 30]
BalanceComponentUnclamped(c) ==
    FMul(FFromRatio(c.engagement_balance + 50, 100), FFromInt(30))

BalanceComponent(c) ==
    LET balance_score == FMul(FFromRatio(c.engagement_balance + 50, 100), FFromInt(30))
    IN  PyMax(FFromInt(0), PyMin(FFromInt(30), balance_score))

QualityComponent(c) == FMul(priority_weight(c.quality_tier), FFromInt(25))

DormancyComponent(c) ==
    FMul(PyMin(FFromRatio(c.days_since_last_email, 60), FFromInt(1)), FFromInt(20))

EngagementComponent(c) ==
    FMul(FAdd(FMul(FFromRatio(c.open_rate, 100), FFromRatio(5, 10)),
              FMul(FFromRatio(c.response_rate, 100), FFromRatio(5, 10))),
         FFromInt(15))

LtvComponent(c) ==
    LET ltv == c.total_buyback_amount + c.total_purchase_amount
    IN  FMul(PyMin(FFromRatio(ltv, 500000), FFromInt(1)), FFromInt(10))

calculate_priority_score(c) ==
    PyRound2(FAdd(FAdd(FAdd(FAdd(FAdd(FZero, BalanceComponent(c)), QualityComponent(c)),
                            DormancyComponent(c)), EngagementComponent(c)),
                  LtvComponent(c)))

(***************************************************************************)
(* Inputs of the classification runs.                                      *)
(***************************************************************************)
Today == 200

ActivityTypes == {"buyback_main", "purchase_main", "both_active"}

Customer(days, bal, tier, act, gift, sol) ==
    [days_since_last_email |-> days, engagement_balance |-> bal, quality_tier |-> tier,
     activity_type |-> act, last_gift |-> gift, last_solicitation |-> sol,
     open_rate |-> 50, response_rate |-> 20,
     total_buyback_amount |-> 100000, total_purchase_amount |-> 50000]

ClassifyCustomers ==
    { Customer(days, bal, tier, act, Today - gift, Today - sol) :
        days \in {-2, 3, 6, 7, 20},
        bal  \in {-25, -21, -20, -16, -15, -1, 0, 10},
        tier \in QualityTiers,
        act  \in ActivityTypes,
        gift \in {60, 61, 90, 91},
        sol  \in {13, 14} }

\* targeting.determine_email_type(customer), as run_single_customer_trace calls it
DetermineEmailType ==
    /\ pc = "engine"
    /\ result' = determine_email_type(customers[1], warehouse, today)
    /\ pc' = "classified"
    /\ UNCHANGED <<warehouse, config, customers, clock, budget, today, decisions,
                   filtered, idx, debt_count, credit_count, run, first,
                   df, optimizer_vars>>

\* targeting._select_credit_email(customer)
SelectCreditEmail ==
    /\ pc = "engine"
    /\ result' = [email_type |-> select_credit_email(customers[1], today),
                  reason |-> NoResult.reason]
    /\ pc' = "credit_selected"
    /\ UNCHANGED <<warehouse, config, customers, clock, budget, today, decisions,
                   filtered, idx, debt_count, credit_count, run, first,
                   df, optimizer_vars>>

\* the state after SmartTargetingEngine(warehouse, blog_data)
InitClassify ==
    /\ pc = "engine"
    /\ warehouse \in {w \in Warehouses : w.capacity_usage = 500}
    /\ config = EmptyDict
    /\ customers \in {<<c>> : c \in ClassifyCustomers}
    /\ clock = Today
    /\ today = Today
    /\ budget = NoBudget
    /\ decisions = <<>>
    /\ filtered = <<>>
    /\ idx = 0
    /\ debt_count = 0
    /\ credit_count = 0
    /\ result = NoResult
    /\ run = 1
    /\ first = <<>>
    /\ NoRows

NextClassify ==
    \/ DetermineEmailType
    \/ SelectCreditEmail

SpecClassify == InitClassify /\ [][NextClassify]_vars

(***************************************************************************)
(* Scoring runs: calculate_priority_score on one customer, then once more  *)
(* by an engine built later for another warehouse.                         *)
(***************************************************************************)
ScoreCustomers ==
    { [Customer(days, bal, tier, "buyback_main", Today - 10, Today - 30)
          EXCEPT !.open_rate = rates[1], !.response_rate = rates[2],
                 !.total_buyback_amount = amounts[1],
                 !.total_purchase_amount = amounts[2]] :
        days    \in {-5, 0, 59, 400},
        bal     \in {-60, -50, 13, 70},
        tier    \in {"A", "C", "D"},
        rates   \in {<<0, 0>>, <<37, 91>>, <<100, 100>>},
        amounts \in {<<0, 0>>, <<300000, 300000>>} }

\* the return value of calculate_priority_score with the five terms it adds up
Scored(c) ==
    [score      |-> calculate_priority_score(c),
     balance    |-> BalanceComponent(c),
     quality    |-> QualityComponent(c),
     dormancy   |-> DormancyComponent(c),
     engagement |-> EngagementComponent(c),
     ltv        |-> LtvComponent(c)]

\* targeting.calculate_priority_score(customer)
CalculatePriorityScore ==
    /\ pc = "engine"
    /\ result' = Scored(customers[1])
    /\ pc' = "scored"
    /\ UNCHANGED <<warehouse, config, customers, clock, budget, today, decisions,
                   filtered, idx, debt_count, credit_count, run, first,
                   df, optimizer_vars>>

\* the same customer scored by a new engine, a day later and for a warehouse
\* at the other end of the emergency scale
ScoreAgain ==
    /\ pc = "scored"
    /\ run = 1
    /\ warehouse' = [warehouse EXCEPT !.emergency_level = 6 - warehouse.emergency_level]
    /\ clock' = clock + 1
    /\ today' = clock + 1
    /\ first' = result
    /\ result' = Scored(customers[1])
    /\ run' = 2
    /\ UNCHANGED <<config, customers, pc, budget, decisions, filtered, idx,
                   debt_count, credit_count,
                   df, optimizer_vars>>

InitScore ==
    /\ pc = "engine"
    /\ warehouse \in {w \in Warehouses : w.capacity_usage = 500 /\ w.emergency_level \in {1, 5}
                                          /\ w.slack_days = <<>>}
    /\ config = EmptyDict
    /\ customers \in {<<c>> : c \in ScoreCustomers}
    /\ clock = Today
    /\ today = Today
    /\ budget = NoBudget
    /\ decisions = <<>>
    /\ filtered = <<>>
    /\ idx = 0
    /\ debt_count = 0
    /\ credit_count = 0
    /\ result = NoResult
    /\ run = 1
    /\ first = <<>>
    /\ NoRows

NextScore ==
    \/ CalculatePriorityScore
    \/ ScoreAgain

SpecScore == InitScore /\ [][NextScore]_vars

(***************************************************************************)
(* load_customers_v2: the rows of the customer CSV file become the roster. *)
(* A row is a function on the columns the file has; dates are day numbers. *)
(***************************************************************************)
\* mutant: an unknown tier code is taken as tier D
quality_tier_unknown_as_D(row) ==
    LET tier_code == Get(row, "buyback_quality_tier", "B")
    IN  IF tier_code \in {"A", "B", "C", "D"} THEN tier_code ELSE "D"

\* {'A': QualityTier.A, ...}.get(row.get('buyback_quality_tier', 'B'), QualityTier.B)
quality_tier_of(row) ==
    LET tier_code == Get(row, "buyback_quality_tier", "B")
    IN  IF tier_code \in {"A", "B", "C", "D"} THEN tier_code ELSE "B"

\* the CustomerProfile built from one row, at the moment `now`
load_row(row, now) ==
    [days_since_last_email |-> DaysSince(now, row["last_email_date"]),
     engagement_balance    |-> Get(row, "engagement_balance", 0),
     quality_tier          |-> quality_tier_of(row),
     activity_type         |-> row["activity_type"],
     last_gift             |-> row["last_gift_date"],
     last_solicitation     |-> row["last_solicitation_date"],
     open_rate             |-> row["open_rate"],
     response_rate         |-> row["response_rate"],
     total_buyback_amount  |-> row["total_buyback_amount"],
     total_purchase_amount |-> row["total_purchase_amount"]]

\* the tier codes of the file: the four tiers, two codes that are no tier, and
\* <<>> for a file without the column
TierCodes == {<<>>, <<"A">>, <<"B">>, <<"C">>, <<"D">>, <<"E">>, <<"b">>}

LoadRows ==
    { Opt("buyback_quality_tier", code) @@ Opt("engagement_balance", bal)
        @@ ("last_email_date" :> Today - days) @@ ("activity_type" :> act)
        @@ ("last_gift_date" :> Today - 60) @@ ("last_solicitation_date" :> Today - 14)
        @@ ("open_rate" :> 50) @@ ("response_rate" :> 20)
        @@ ("total_buyback_amount" :> 100000) @@ ("total_purchase_amount" :> 50000) :
        code \in TierCodes,
        bal  \in {<<>>, <<10>>, <<-25>>},
        days \in {-2, 0, 3, 20},
        act  \in {"buyback_main", "purchase_main"} }

\* customers = load_customers_v2()
LoadCustomersV2 ==
    /\ pc = "load"
    /\ customers' = [k \in 1..Len(df) |-> load_row(df[k], clock)]
    /\ pc' = "start"
    /\ UNCHANGED <<warehouse, config, clock, budget, today, decisions, filtered, idx,
                   debt_count, credit_count, result, run, first, df, optimizer_vars>>

InitBudget ==
    /\ pc = "start"
    /\ warehouse \in Warehouses
    /\ config \in Configs
    /\ budget = NoBudget
    /\ Idle

NextBudget == CalculateBudget

SpecBudget == InitBudget /\ [][NextBudget]_vars

(***************************************************************************)
(* build_priority_queue.  A decision refers to its customer by the roster  *)
(* position; content_elements (prompt material for the content generator)  *)
(* is not part of the decision logic and is left out.                      *)
(***************************************************************************)
\* priority of a non-SKIP decision: score * tier weight (* 1.3 when boosted)
boosted_priority(c, boost) ==
    LET priority == FMul(calculate_priority_score(c), priority_weight(c.quality_tier))
    IN  IF boost THEN FMul(priority, FFromRatio(13, 10)) ELSE priority

\* the roster customers the pipeline runs draw from
RosterPool ==
    << Customer(20, 10, "A", "buyback_main", Today - 10, Today - 30),
       Customer(20, 10, "A", "buyback_main", Today - 10, Today - 30),
       Customer(45, 0, "B", "both_active", Today - 60, Today - 14),
       Customer(20, 10, "A", "purchase_main", Today - 10, Today - 30),
       Customer(30, 5, "B", "purchase_main", Today - 10, Today - 30),
       Customer(20, -25, "A", "buyback_main", Today - 10, Today - 30),
       Customer(20, 10, "C", "buyback_main", Today - 100, Today - 30),
       Customer(20, 10, "D", "both_active", Today - 10, Today - 30),
       Customer(3, 10, "A", "buyback_main", Today - 10, Today - 30) >>

WithId(c, id) ==
    [f \in DOMAIN c \cup {"customer_id"} |-> IF f = "customer_id" THEN id ELSE c[f]]

\* the priorities of the pool, computed once
PriorityTable ==
    [i \in 1..Len(RosterPool) |-> [boost \in BOOLEAN |-> boosted_priority(RosterPool[i], boost)]]

priority_of(c, w, email_type) ==
    PriorityTable[c.customer_id][is_emergency(w) /\ Category(email_type) = "debt"]

decide(customers_, k, w, t) ==
    LET c == customers_[k]
        d == determine_email_type(c, w, t)
    IN  IF d.email_type = "SKIP"
        THEN [customer |-> k, email_type |-> d.email_type, priority_score |-> FZero,
              reason |-> d.reason, balance_after |-> c.engagement_balance]
        ELSE [customer |-> k, email_type |-> d.email_type,
              priority_score |-> priority_of(c, w, d.email_type),
              reason |-> d.reason,
              balance_after |-> c.engagement_balance + BalanceImpact(d.email_type)]

\* mutant: an unstable sort, a decision goes in front of those of equal priority
RECURSIVE InsertDescBeforeEqual(_, _, _)
InsertDescBeforeEqual(sorted, d, j) ==
    IF j > Len(sorted) THEN Append(sorted, d)
    ELSE IF FCmp(sorted[j].priority_score, d.priority_score) <= 0
    THEN SubSeq(sorted, 1, j - 1) \o <<d>> \o SubSeq(sorted, j, Len(sorted))
    ELSE InsertDescBeforeEqual(sorted, d, j + 1)

\* list.sort(key=priority_score, reverse=True): stable, equal keys keep their order
RECURSIVE InsertDesc(_, _, _)
InsertDesc(sorted, d, j) ==
    IF j > Len(sorted) THEN Append(sorted, d)
    ELSE IF FCmp(sorted[j].priority_score, d.priority_score) < 0
    THEN SubSeq(sorted, 1, j - 1) \o <<d>> \o SubSeq(sorted, j, Len(sorted))
    ELSE InsertDesc(sorted, d, j + 1)

\* mutant: the decisions are left in roster order
SortDescRosterOrder(ds, n) == ds

RECURSIVE SortDesc(_, _)
SortDesc(ds, n) == IF n = 0 THEN <<>> ELSE InsertDesc(SortDesc(ds, n - 1), ds[n], 1)

\* mutant: off-by-one admission test
AdmitDebtOffByOne(count, b) == count <= b.debt_budget

AdmitDebt(count, b)    == count < b.debt_budget
AdmitCredit(count, b)  == count < b.credit_budget
AdmitNeutral(dc, cc, b) == dc + cc < b.total_budget

Demoted(d, text) == [d EXCEPT !.email_type = "SKIP", !.reason = Reason(text, 0)]

(***************************************************************************)
(* The pipeline of main() / run_simulation: calculate_budget, then a fresh *)
(* SmartTargetingEngine and build_priority_queue; a second run repeats it  *)
(* on the same inputs.  The wall clock may pass midnight between the       *)
(* engine's construction and the call, and between the runs.               *)
(***************************************************************************)
MaxRoster == 3
MaxTicks  == 1

\* targeting = SmartTargetingEngine(warehouse, blog_data)
NewEngine ==
    /\ pc = "budgeted"
    /\ today' = clock
    /\ pc' = "engine"
    /\ UNCHANGED <<warehouse, config, customers, clock, budget, decisions, filtered,
                   idx, debt_count, credit_count, result, run, first,
                   df, optimizer_vars>>

Tick ==
    /\ pc \in {"engine", "done"}
    /\ run = 1 \/ pc = "engine"
    /\ clock < Today + MaxTicks
    /\ clock' = clock + 1
    /\ UNCHANGED <<warehouse, config, customers, pc, budget, today, decisions, filtered,
                   idx, debt_count, credit_count, result, run, first,
                   df, optimizer_vars>>

\* mutant: the projected balance is written back to the customer record
BuildDecisionsWriteBack ==
    /\ pc = "engine"
    /\ decisions' =
         SortDesc([k \in 1..Len(customers) |-> decide(customers, k, warehouse, today)],
                  Len(customers))
    /\ customers' =
         [k \in 1..Len(customers) |->
            [customers[k] EXCEPT !.engagement_balance =
                                    decide(customers, k, warehouse, today).balance_after]]
    /\ filtered' = <<>>
    /\ idx' = 1
    /\ debt_count' = 0
    /\ credit_count' = 0
    /\ pc' = "filter"
    /\ UNCHANGED <<warehouse, config, clock, budget, today, result, run, first,
                   df, optimizer_vars>>

\* build_priority_queue up to and including decisions.sort(...)
BuildDecisions ==
    /\ pc = "engine"
    /\ decisions' =
         SortDesc([k \in 1..Len(customers) |-> decide(customers, k, warehouse, today)],
                  Len(customers))
    /\ filtered' = <<>>
    /\ idx' = 1
    /\ debt_count' = 0
    /\ credit_count' = 0
    /\ pc' = "filter"
    /\ UNCHANGED <<warehouse, config, customers, clock, budget, today, result, run, first,
                   df, optimizer_vars>>

\* one iteration of `for decision in decisions`
FilterStep ==
    /\ pc = "filter"
    /\ idx <= Len(decisions)
    /\ LET d == decisions[idx]
           category == Category(d.email_type)
       IN  \/ /\ d.email_type = "SKIP"
              /\ filtered' = Append(filtered, d)
              /\ UNCHANGED <<decisions, debt_count, credit_count>>
           \/ /\ d.email_type # "SKIP" /\ category = "debt"
              /\ AdmitDebt(debt_count, budget)
              /\ filtered' = Append(filtered, d)
              /\ debt_count' = debt_count + 1
              /\ UNCHANGED <<decisions, credit_count>>
           \/ /\ d.email_type # "SKIP" /\ category = "debt"
              /\ ~AdmitDebt(debt_count, budget)
              /\ decisions' = [decisions EXCEPT ![idx] = Demoted(d, "budget exceeded (debt)")]
              /\ filtered' = Append(filtered, Demoted(d, "budget exceeded (debt)"))
              /\ UNCHANGED <<debt_count, credit_count>>
           \/ /\ category = "credit"
              /\ AdmitCredit(credit_count, budget)
              /\ filtered' = Append(filtered, d)
              /\ credit_count' = credit_count + 1
              /\ UNCHANGED <<decisions, debt_count>>
           \/ /\ category = "credit"
              /\ ~AdmitCredit(credit_count, budget)
              /\ decisions' = [decisions EXCEPT ![idx] = Demoted(d, "budget exceeded (credit)")]
              /\ filtered' = Append(filtered, Demoted(d, "budget exceeded (credit)"))
              /\ UNCHANGED <<debt_count, credit_count>>
           \/ /\ d.email_type # "SKIP" /\ category = "neutral"
              /\ AdmitNeutral(debt_count, credit_count, budget)
              /\ filtered' = Append(filtered, d)
              /\ UNCHANGED <<decisions, debt_count, credit_count>>
           \/ /\ d.email_type # "SKIP" /\ category = "neutral"
              /\ ~AdmitNeutral(debt_count, credit_count, budget)
              /\ UNCHANGED <<decisions, filtered, debt_count, credit_count>>
    /\ idx' = idx + 1
    /\ UNCHANGED <<warehouse, config, customers, clock, pc, budget, today, result, run, first,
                   df, optimizer_vars>>

\* return filtered
Return ==
    /\ pc = "filter"
    /\ idx > Len(decisions)
    /\ pc' = "done"
    /\ UNCHANGED <<warehouse, config, customers, clock, budget, today, decisions, filtered,
                   idx, debt_count, credit_count, result, run, first,
                   df, optimizer_vars>>

\* the pipeline is run again on the same warehouse, roster and configuration
SecondRun ==
    /\ pc = "done"
    /\ run = 1
    /\ first' = [today |-> today, budget |-> budget, output |-> filtered]
    /\ run' = 2
    /\ pc' = "start"
    /\ budget' = NoBudget
    /\ decisions' = <<>>
    /\ filtered' = <<>>
    /\ idx' = 0
    /\ debt_count' = 0
    /\ credit_count' = 0
    /\ UNCHANGED <<warehouse, config, customers, clock, today, result,
                   df, optimizer_vars>>

PipelineWarehouses ==
    {w \in Warehouses : w.capacity_usage \in {500, 750, 1000}
                            /\ w.emergency_level \in {2, 3, 4, 5}}

PipelineConfigs == {"email_budget_formula" :> ("base_daily_emails" :> 7)}

RECURSIVE Ascending(_, _)
Ascending(lo, n) ==
    IF n = 0 THEN {<<>>}
    ELSE {<<>>} \cup UNION { { <<i>> \o s : s \in Ascending(i + 1, n - 1) } :
                             i \in lo..Len(RosterPool) }

Reverse(s) == [j \in 1..Len(s) |-> s[Len(s) + 1 - j]]

\* rosters of distinct customers, in pool order or in reverse pool order
Rosters ==
    { [j \in 1..Len(s) |-> WithId(RosterPool[s[j]], s[j])] :
        s \in Ascending(1, MaxRoster) \cup { Reverse(r) : r \in Ascending(1, MaxRoster) } }

Init ==
    /\ pc = "start"
    /\ warehouse \in PipelineWarehouses
    /\ config \in PipelineConfigs
    /\ customers \in Rosters
    /\ clock = Today
    /\ today = 0
    /\ budget = NoBudget
    /\ decisions = <<>>
    /\ filtered = <<>>
    /\ idx = 0
    /\ debt_count = 0
    /\ credit_count = 0
    /\ result = NoResult
    /\ run = 1
    /\ first = <<>>
    /\ NoRows

Next ==
    \/ CalculateBudget
    \/ NewEngine
    \/ Tick
    \/ BuildDecisions
    \/ FilterStep
    \/ Return
    \/ SecondRun

Spec == Init /\ [][Next]_vars

\* the run of main() on a roster loaded from the CSV file
InitLoad ==
    /\ pc = "load"
    /\ warehouse \in {w \in Warehouses : w.capacity_usage = 500 /\ w.emergency_level \in {3, 5}}
    /\ config = EmptyDict
    /\ df \in {<<row>> : row \in LoadRows}
    /\ customers = <<>>
    /\ clock = Today
    /\ today = 0
    /\ budget = NoBudget
    /\ decisions = <<>>
    /\ filtered = <<>>
    /\ idx = 0
    /\ debt_count = 0
    /\ credit_count = 0
    /\ result = NoResult
    /\ run = 1
    /\ first = <<>>
    /\ target_applications = 0
    /\ conversion_rates = <<>>
    /\ selected_indices = <<>>
    /\ cumulative_expected = FZero
    /\ summary = <<>>

\* main() up to the engine, then the classifier or the ranker on the customer
NextLoad ==
    \/ LoadCustomersV2
    \/ CalculateBudget
    \/ NewEngine
    \/ DetermineEmailType
    \/ CalculatePriorityScore

SpecLoad == InitLoad /\ [][NextLoad]_vars

(***************************************************************************)
(* V1: the urgency derived from warehouse_status.json by smart_mailer.py,  *)
(* ai_mailer.py and full_dashboard.py.  The file is a record of the        *)
(* backlog box count, the weekly forecast (capacity_usage per day, in      *)
(* thousandths) and the slack-period threshold; "high", "medium", "low"    *)
(* are the values 高, 中, 低.                                               *)
(***************************************************************************)
\* the days of the forecast with capacity_usage < threshold
analyze_slack_periods(w) ==
    SelectSeq(w.weekly_forecast, LAMBDA usage : usage < w.slack_threshold)

\* smart_mailer.load_warehouse_status: urgency
load_warehouse_status_urgency(w) ==
    LET slack_days == analyze_slack_periods(w)
    IN  IF w.backlog_boxes < 100 /\ Len(slack_days) >= 3 THEN "high"
        ELSE IF w.backlog_boxes < 150 /\ Len(slack_days) >= 1 THEN "medium"
        ELSE "low"

\* ai_mailer.determine_email_type: urgency
ai_mailer_urgency(w) ==
    LET slack_days == analyze_slack_periods(w)
    IN  IF w.backlog_boxes < 100 /\ Len(slack_days) >= 3 THEN "high"
        ELSE IF Len(slack_days) >= 1 THEN "medium"
        ELSE "low"

\* full_dashboard.determine_urgency
determine_urgency(w) ==
    LET slack_days == analyze_slack_periods(w)
    IN  IF w.backlog_boxes < 100 /\ Len(slack_days) >= 3 THEN "high"
        ELSE IF w.backlog_boxes < 150 /\ Len(slack_days) >= 1 THEN "medium"
        ELSE "low"

RECURSIVE Forecasts(_)
Forecasts(n) ==
    IF n = 0 THEN {<<>>}
    ELSE Forecasts(n - 1) \cup
         { Append(f, usage) : f \in {g \in Forecasts(n - 1) : Len(g) = n - 1},
                              usage \in {300, 450, 600} }

MaxForecastDays == 3

StatusFiles ==
    [backlog_boxes : {50, 99, 100, 120, 149, 150, 200},
     weekly_forecast : Forecasts(MaxForecastDays),
     slack_threshold : {450}]

\* warehouse = load_warehouse_status() of smart_mailer.py
LoadWarehouseStatus ==
    /\ pc = "v1"
    /\ "smart_mailer" \notin DOMAIN result
    /\ result' = result @@ ("smart_mailer" :> load_warehouse_status_urgency(warehouse))
    /\ UNCHANGED <<warehouse, config, customers, clock, pc, budget, today, decisions,
                   filtered, idx, debt_count, credit_count, run, first, df, optimizer_vars>>

\* the urgency computed by determine_email_type of ai_mailer.py
AiMailerUrgency ==
    /\ pc = "v1"
    /\ "ai_mailer" \notin DOMAIN result
    /\ result' = result @@ ("ai_mailer" :> ai_mailer_urgency(warehouse))
    /\ UNCHANGED <<warehouse, config, customers, clock, pc, budget, today, decisions,
                   filtered, idx, debt_count, credit_count, run, first, df, optimizer_vars>>

\* determine_urgency(warehouse) of full_dashboard.py
DetermineUrgency ==
    /\ pc = "v1"
    /\ "full_dashboard" \notin DOMAIN result
    /\ result' = result @@ ("full_dashboard" :> determine_urgency(warehouse))
    /\ UNCHANGED <<warehouse, config, customers, clock, pc, budget, today, decisions,
                   filtered, idx, debt_count, credit_count, run, first, df, optimizer_vars>>

InitUrgency ==
    /\ pc = "v1"
    /\ warehouse \in StatusFiles
    /\ config = EmptyDict
    /\ budget = NoBudget
    /\ customers = <<>>
    /\ clock = Today
    /\ today = Today
    /\ decisions = <<>>
    /\ filtered = <<>>
    /\ idx = 0
    /\ debt_count = 0
    /\ credit_count = 0
    /\ result = EmptyDict
    /\ run = 1
    /\ first = <<>>
    /\ NoRows

NextUrgency ==
    \/ LoadWarehouseStatus
    \/ AiMailerUrgency
    \/ DetermineUrgency

SpecUrgency == InitUrgency /\ [][NextUrgency]_vars

(***************************************************************************)
(* optimizer.py: the additive customer score and the extraction of the     *)
(* customers needed for a target number of applications.  A row of         *)
(* customers_email.csv is a function on its columns (response_rate in      *)
(* hundredths, dates as day numbers) with its DataFrame index; ranks are   *)
(* "platinum" (プラチナ), "gold" (ゴールド), "silver" (シルバー), "bronze"     *)
(* (ブロンズ); a ConversionRate holds its rates in thousandths.             *)
(***************************************************************************)
\* ConversionRate.get_rate
get_rate(rates, rank) ==
    FFromRatio(CASE rank = "platinum" -> rates.platinum
                 [] rank = "gold"     -> rates.gold
                 [] rank = "silver"   -> rates.silver
                 [] rank = "bronze"   -> rates.bronze
                 [] OTHER             -> 5,
               1000)

\* row['過去反応率'] * 40
ResponseComponent(row) == FMul(FFromRatio(row["response_rate"], 100), FFromInt(40))

DormancyComponentV1(row) ==
    LET dormant_days == row["dormant_days"]
    IN  IF 30 <= dormant_days /\ dormant_days <= 90 THEN 25
        ELSE IF 15 <= dormant_days /\ dormant_days < 30 THEN 15
        ELSE IF 90 < dormant_days /\ dormant_days <= 180 THEN 18
        ELSE 5

AmountComponent(row) ==
    IF row["total_buyback_amount"] >= 300000 THEN 20
    ELSE IF row["total_buyback_amount"] >= 150000 THEN 15
    ELSE IF row["total_buyback_amount"] >= 50000 THEN 10
    ELSE 5

CadenceComponent(row, t) ==
    LET days_since_email == DaysSince(t, row["last_email_date"])
    IN  IF days_since_email >= 30 THEN 15
        ELSE IF days_since_email >= 21 THEN 10
        ELSE IF days_since_email >= 14 THEN 5
        ELSE -10

calculate_customer_score(row, t) ==
    FAdd(FAdd(FAdd(FAdd(FFromInt(0), ResponseComponent(row)),
                   FFromInt(DormancyComponentV1(row))),
              FFromInt(AmountComponent(row))),
         FFromInt(CadenceComponent(row, t)))

\* round(x, 1) of a numpy float: x * 10 to the nearest integer (ties to even),
\* divided by 10
NpRound1(x) ==
    LET y == FMul(x, FFromInt(10))
        n == IF y.m = <<>> THEN 0
             ELSE IF y.e >= 0 THEN BigToInt(BigShl(y.m, y.e))
             ELSE BigToInt(BigShrRound(y.m, -y.e))
    IN  FFromRatio(IF y.s = 1 THEN -n ELSE n, 10)

\* selected_df['期待転換率'].sum(): the rates of the first n rows added up
RECURSIVE SumRates(_, _)
SumRates(rows, n) ==
    IF n = 0 THEN FZero ELSE FAdd(SumRates(rows, n - 1), rows[n]["rate"])

\* mutant: the loop stops only once the target is exceeded
TargetReachedStrict(cumulative, target) == FCmp(cumulative, FFromInt(target)) > 0

\* cumulative_expected >= target_applications
TargetReached(cumulative, target) == FCmp(cumulative, FFromInt(target)) >= 0

\* df with the score and expected-rate columns, sorted by descending score;
\* sort_values does not promise an order among equal scores
SortByScore ==
    /\ pc = "extract"
    /\ \E p \in Permutations(1..Len(df)) :
          LET scored == [k \in 1..Len(df) |->
                            df[k] @@ ("score" :> calculate_customer_score(df[k], today))
                                  @@ ("rate" :> get_rate(conversion_rates, df[k]["rank"]))]
              sorted == [k \in 1..Len(df) |-> scored[p[k]]]
          IN  /\ \A k \in 1..(Len(df) - 1) :
                    FCmp(sorted[k]["score"], sorted[k + 1]["score"]) >= 0
              /\ df' = sorted
    /\ cumulative_expected' = FZero
    /\ selected_indices' = <<>>
    /\ idx' = 1
    /\ pc' = "select"
    /\ UNCHANGED <<warehouse, config, customers, clock, budget, today, decisions, filtered,
                   debt_count, credit_count, result, run, first, target_applications,
                   conversion_rates, summary>>

\* one iteration of `for idx, row in df.iterrows()` that does not break
SelectStep ==
    /\ pc = "select"
    /\ idx <= Len(df)
    /\ ~TargetReached(cumulative_expected, target_applications)
    /\ cumulative_expected' = FAdd(cumulative_expected, df[idx]["rate"])
    /\ selected_indices' = Append(selected_indices, df[idx]["index"])
    /\ idx' = idx + 1
    /\ UNCHANGED <<warehouse, config, customers, clock, pc, budget, today, decisions,
                   filtered, debt_count, credit_count, result, run, first, df,
                   target_applications, conversion_rates, summary>>

\* the loop ends (break or end of the frame); selected_df and the summary
Summarize ==
    /\ pc = "select"
    /\ idx > Len(df) \/ TargetReached(cumulative_expected, target_applications)
    /\ LET n == Len(selected_indices)
       IN  summary' = [target   |-> target_applications,
                       selected |-> n,
                       expected |-> NpRound1(FMul(SumRates(df, n), FFromInt(n)))]
    /\ pc' = "extracted"
    /\ UNCHANGED <<warehouse, config, customers, clock, budget, today, decisions, filtered,
                   idx, debt_count, credit_count, result, run, first, df,
                   target_applications, conversion_rates, selected_indices,
                   cumulative_expected>>

EmailRow(rank, rate, dormant, amount, age) ==
    [rank |-> rank, response_rate |-> rate, dormant_days |-> dormant,
     total_buyback_amount |-> amount, last_email_date |-> Today - age]

\* the rows the frames are drawn from
RowPool ==
    << EmailRow("platinum", 35, 45, 320000, 40),
       EmailRow("platinum", 35, 45, 320000, 40),
       EmailRow("gold", 100, 60, 300000, 30),
       EmailRow("silver", 20, 20, 60000, 21),
       EmailRow("bronze", 0, 200, 1000, 5),
       EmailRow("regular", 37, 120, 150000, 14) >>

MaxRows == 3

RECURSIVE AscendingRows(_, _)
AscendingRows(lo, n) ==
    IF n = 0 THEN {<<>>}
    ELSE {<<>>} \cup UNION { { <<i>> \o s : s \in AscendingRows(i + 1, n - 1) } :
                             i \in lo..Len(RowPool) }

\* frames of distinct rows in pool order or reversed, indexed from 0
Frames ==
    { [j \in 1..Len(s) |-> RowPool[s[j]] @@ ("index" :> j - 1)] :
        s \in AscendingRows(1, MaxRows) \cup { Reverse(r) : r \in AscendingRows(1, MaxRows) } }

\* ConversionRate() and a ConversionRate with rates that reach a target
ConversionRates ==
    { [platinum |-> 25, gold |-> 15, silver |-> 8, bronze |-> 3],
      [platinum |-> 500, gold |-> 700, silver |-> 400, bronze |-> 100] }

Targets == {-1, 0, 1, 2}

InitOptimizer ==
    /\ pc = "extract"
    /\ df \in Frames
    /\ target_applications \in Targets
    /\ conversion_rates \in ConversionRates
    /\ selected_indices = <<>>
    /\ cumulative_expected = FZero
    /\ summary = <<>>
    /\ warehouse = <<>>
    /\ config = EmptyDict
    /\ budget = NoBudget
    /\ customers = <<>>
    /\ clock = Today
    /\ today = Today
    /\ decisions = <<>>
    /\ filtered = <<>>
    /\ idx = 0
    /\ debt_count = 0
    /\ credit_count = 0
    /\ result = NoResult
    /\ run = 1
    /\ first = <<>>

NextOptimizer ==
    \/ SortByScore
    \/ SelectStep
    \/ Summarize

SpecOptimizer == InitOptimizer /\ [][NextOptimizer]_vars

(***************************************************************************)
(* Properties.                                                             *)
(***************************************************************************)
CountCategory(ds, cat) ==
    Cardinality({j \in 1..Len(ds) : ds[j].email_type # "SKIP" /\ Category(ds[j].email_type) = cat})

MaxDailyEmails ==
    Get(Get(config, "email_budget_formula", EmptyDict), "max_daily_emails",
        DefaultMaxDailyEmails)

\* C1: for every warehouse and configuration, calculate_budget returns
\* debt_budget + credit_budget = total_budget exactly
BudgetConservation ==
    pc = "budgeted" => budget.debt_budget + budget.credit_budget = budget.total_budget

\* C2: at every step of the allocation walk and in the returned list, the debt
\* decisions number at most debt_budget and the credit decisions at most
\* credit_budget
AllocatorBudgetRespect ==
    pc \in {"filter", "done"} =>
        /\ debt_count <= budget.debt_budget
        /\ credit_count <= budget.credit_budget
        /\ CountCategory(filtered, "debt") <= budget.debt_budget
        /\ CountCategory(filtered, "credit") <= budget.credit_budget

\* a returned list in which the debt budget was used up and a debt candidate demoted
AllocatorBudgetRespectWitness ==
    /\ pc = "done"
    /\ budget.debt_budget > 0
    /\ CountCategory(filtered, "debt") = budget.debt_budget
    /\ \E j \in 1..Len(filtered) : filtered[j].reason.text = "budget exceeded (debt)"

\* C3: a customer with days_since_last_email < 7 is classified SKIP, whatever
\* the warehouse and the other fields
CooldownSkip ==
    pc = "classified" =>
        (customers[1].days_since_last_email < 7 => result.email_type = "SKIP")

\* an eligible tier-A customer in a critical warehouse, skipped at 6 days
CooldownSkipWitness ==
    /\ pc = "classified"
    /\ customers[1].days_since_last_email = 6
    /\ warehouse.emergency_level = 5
    /\ customers[1].quality_tier = "A"
    /\ customers[1].engagement_balance = 10
    /\ result.email_type = "SKIP"

\* C4: in a non-critical warehouse a tier-D customer is never classified into
\* a debt-category type
TierDGating ==
    pc = "classified" =>
        (warehouse.emergency_level # 5 /\ customers[1].quality_tier = "D"
            => result.email_type \notin {"URGENT_KAITORI", "NORMAL_KAITORI"})

\* a tier-D buyback customer past every interval, in a level-4 emergency with slack days
TierDGatingWitness ==
    /\ pc = "classified"
    /\ warehouse.emergency_level = 4
    /\ Len(warehouse.slack_days) > 0
    /\ customers[1].quality_tier = "D"
    /\ customers[1].activity_type = "buyback_main"
    /\ customers[1].days_since_last_email = 20
    /\ customers[1].engagement_balance = 10
    /\ today - customers[1].last_gift = 60
    /\ today - customers[1].last_solicitation = 14
    /\ result.email_type = "NEWS_STORY"

\* C5: in a non-critical warehouse, a customer past the e-mail interval who
\* needs credit first (balance < 0 or last gift more than 60 days ago) gets the
\* credit-selection result, never a debt type; balance -25 at 20 days gets
\* GIFT_POINTS
CreditFirstOverride ==
    pc = "classified" =>
        LET c == customers[1]
        IN  /\ warehouse.emergency_level # 5
            /\ c.days_since_last_email >= 7
            /\ (c.engagement_balance < 0 \/ today - c.last_gift > 60)
            => /\ result.email_type = select_credit_email(c, today)
               /\ Category(result.email_type) = "credit"
               /\ (c.engagement_balance = -25 /\ c.days_since_last_email = 20
                      => result.email_type = "GIFT_POINTS")

\* a customer eligible for solicitation in a level-4 emergency whose balance
\* of -1 turns the urgent request into a credit e-mail
CreditFirstOverrideWitness ==
    /\ pc = "classified"
    /\ warehouse.emergency_level = 4
    /\ customers[1].engagement_balance = -1
    /\ customers[1].days_since_last_email = 20
    /\ customers[1].activity_type = "buyback_main"
    /\ is_eligible_for_solicitation(customers[1], warehouse, today).ok
    /\ result.email_type = "NEWS_STORY"

\* C6: build_priority_queue returns exactly one decision for every customer of
\* the roster, whatever the budget
OneDecisionPerCustomer ==
    pc = "done" =>
        /\ Len(filtered) = Len(customers)
        /\ \A k \in 1..Len(customers) :
              Cardinality({j \in 1..Len(filtered) : filtered[j].customer = k}) = 1

\* C7: 0 <= total_budget <= max_daily_emails for every capacity_usage
\* (also outside [0, 1]) and every emergency level
BudgetClamped ==
    pc = "budgeted" =>
        /\ 0 <= budget.total_budget
        /\ budget.total_budget <= MaxDailyEmails

\* a capacity_usage of -0.5 whose raw budget is cut down to max_daily_emails
BudgetClampedWitness ==
    /\ pc = "budgeted"
    /\ warehouse.capacity_usage = -500
    /\ warehouse.emergency_level = 5
    /\ FCmp(RawBudget(warehouse, config), FFromInt(MaxDailyEmails)) > 0
    /\ budget.total_budget = MaxDailyEmails

\* C8: a second run on the same warehouse, roster and configuration with the
\* same `now` returns the same budget and the same list of decisions (types,
\* priorities, reasons, order)
Deterministic ==
    run = 2 /\ pc = "done" /\ today = first.today =>
        /\ budget = first.budget
        /\ filtered = first.output

\* a second run of three decisions, one of them sent, finished on the day it
\* started although the clock passed midnight during it
DeterministicWitness ==
    /\ run = 2
    /\ pc = "done"
    /\ today = first.today
    /\ clock # today
    /\ Len(filtered) = 3
    /\ \E j \in 1..Len(filtered) : filtered[j].email_type # "SKIP"
    /\ filtered = first.output

\* C9: with base 500 and the default multipliers, capacity_usage 0.12 at level 5
\* gives 1100 / 880 / 220 and capacity_usage 0.75 at level 2 gives 100 / 20 / 80
ScenarioBudgets ==
    pc = "budgeted" /\ config = ScenarioConfig =>
        /\ warehouse.capacity_usage = 120 /\ warehouse.emergency_level = 5
           => /\ budget.total_budget = 1100
              /\ budget.debt_budget = 880
              /\ budget.credit_budget = 220
        /\ warehouse.capacity_usage = 750 /\ warehouse.emergency_level = 2
           => /\ budget.total_budget = 100
              /\ budget.debt_budget = 20
              /\ budget.credit_budget = 80

\* C10: determine_email_type returns the outcome of the first matching rule of
\* (1) interval, (2) credit first unless critical, (3) urgent buyback,
\* (4) purchase promotion, (5) normal buyback, (6) credit selection
FirstMatchingRule ==
    pc = "classified" =>
        LET c        == customers[1]
            eligible == is_eligible_for_solicitation(c, warehouse, today).ok
            credit   == select_credit_email(c, today)
        IN  result.email_type =
              IF c.days_since_last_email < 7 THEN "SKIP"
              ELSE IF /\ (c.engagement_balance < 0 \/ today - c.last_gift > 60)
                      /\ warehouse.emergency_level # 5
              THEN credit
              ELSE IF /\ warehouse.emergency_level >= 4
                      /\ c.activity_type \in {"buyback_main", "both_active"}
                      /\ eligible
              THEN "URGENT_KAITORI"
              ELSE IF c.activity_type = "purchase_main" THEN "PURCHASE_PROMO"
              ELSE IF eligible /\ Len(warehouse.slack_days) >= 1 THEN "NORMAL_KAITORI"
              ELSE credit

\* a purchase-leaning customer who is also eligible for a normal buyback
\* request on a slack day: rule (4) wins over rule (5)
FirstMatchingRuleWitness ==
    /\ pc = "classified"
    /\ customers[1].activity_type = "purchase_main"
    /\ customers[1].days_since_last_email = 20
    /\ customers[1].engagement_balance = 10
    /\ today - customers[1].last_gift = 60
    /\ warehouse.emergency_level = 3
    /\ Len(warehouse.slack_days) > 0
    /\ is_eligible_for_solicitation(customers[1], warehouse, today).ok
    /\ result.email_type = "PURCHASE_PROMO"

\* C11: a customer with engagement_balance < -20 is not eligible for
\* solicitation and is not classified into a debt-category type, for every
\* quality tier and every emergency level
LowBalanceNeverSolicited ==
    pc = "classified" =>
        (customers[1].engagement_balance < -20
            => /\ ~is_eligible_for_solicitation(customers[1], warehouse, today).ok
               /\ result.email_type \notin {"URGENT_KAITORI", "NORMAL_KAITORI"})

\* C12: in a warehouse that is not critical, a customer solicited fewer than 14
\* days ago is not eligible for solicitation and is not classified into a
\* debt-category type, for every quality tier
SolicitationCooldown ==
    pc = "classified" =>
        (warehouse.emergency_level # 5 /\ today - customers[1].last_solicitation < 14
            => /\ ~is_eligible_for_solicitation(customers[1], warehouse, today).ok
               /\ result.email_type \notin {"URGENT_KAITORI", "NORMAL_KAITORI"})

\* C13: the debt ratio is 0.80 at level 5, 0.60 at level 4, 0.40 at level 3 and
\* 0.20 at levels 1 and 2: debt_budget is that share of total_budget (cut to an
\* integer), and no lower level has a larger ratio
DebtRatioByLevel ==
    pc = "budgeted" =>
        LET l      == warehouse.emergency_level
            tenths == CASE l = 5 -> 8 [] l = 4 -> 6 [] l = 3 -> 4 [] OTHER -> 2
        IN  /\ DebtRatioTenths(warehouse) = tenths
            /\ budget.debt_budget = (budget.total_budget * tenths) \div 10
            /\ \A lower \in 1..l :
                  DebtRatioTenths([warehouse EXCEPT !.emergency_level = lower]) <= tenths

\* the emergency scenario: 540 e-mails at level 4, of which 324 are debt e-mails
DebtRatioByLevelWitness ==
    /\ pc = "budgeted"
    /\ config = ScenarioConfig
    /\ warehouse.capacity_usage = 280
    /\ warehouse.emergency_level = 4
    /\ budget.total_budget = 540
    /\ budget.debt_budget = 324

\* C14: total_budget is the raw budget base * (1 - capacity_usage) * multiplier
\* rounded to the nearest integer and then clamped to
\* [min_daily_emails, max_daily_emails]; a raw budget of 333.5 gives 334
BudgetRounded ==
    pc = "budgeted" =>
        LET formula    == Get(config, "email_budget_formula", EmptyDict)
            base       == Get(formula, "base_daily_emails", 500)
            max_emails == Get(formula, "max_daily_emails", 2000)
            min_emails == Get(formula, "min_daily_emails", 0)
            tenths     == Get(Get(formula, "emergency_multipliers", EmptyDict),
                              LevelKey(warehouse.emergency_level), 10)
            \* the raw budget is num / 10000
            num        == base * (1000 - warehouse.capacity_usage) * tenths
            rounded    == (num + 5000) \div 10000
            clamped    == IF rounded < min_emails THEN min_emails
                          ELSE IF rounded > max_emails THEN max_emails
                          ELSE rounded
        IN  budget.total_budget = clamped

\* C15: when the configuration holds no multiplier for the current level,
\* calculate_budget uses the default multiplier of that level (0.5, 0.8, 1.0,
\* 1.5, 2.5 for levels 1 to 5), and base_daily_emails defaults to 500
DefaultMultipliers ==
    pc = "budgeted" =>
        LET formula     == Get(config, "email_budget_formula", EmptyDict)
            multipliers == Get(formula, "emergency_multipliers", EmptyDict)
            level       == warehouse.emergency_level
            defaults    == ("1" :> 5) @@ ("2" :> 8) @@ ("3" :> 10) @@ ("4" :> 15) @@ ("5" :> 25)
            filled      == ("emergency_multipliers" :> (multipliers @@ defaults))
                           @@ ("base_daily_emails" :> Get(formula, "base_daily_emails", 500))
                           @@ formula
        IN  LevelKey(level) \notin DOMAIN multipliers
            => budget.total_budget =
                   TotalBudget(warehouse, "email_budget_formula" :> filled)

\* C16: _select_credit_email returns a credit-category type, that of the first
\* matching rule: balance < -15 gives GIFT_POINTS, else more than 90 days since
\* the last gift gives THANK_YOU, else a purchase-main customer gets GIFT_INFO,
\* else NEWS_STORY
CreditSelection ==
    pc = "credit_selected" =>
        LET c == customers[1]
        IN  /\ result.email_type \in {"GIFT_POINTS", "GIFT_INFO", "NEWS_STORY", "THANK_YOU"}
            /\ result.email_type =
                 IF c.engagement_balance < -15 THEN "GIFT_POINTS"
                 ELSE IF today - c.last_gift > 90 THEN "THANK_YOU"
                 ELSE IF c.activity_type = "purchase_main" THEN "GIFT_INFO"
                 ELSE "NEWS_STORY"

\* a purchase-main customer with balance -16 and a gift 91 days old: the
\* points rule wins over the thank-you and the information rules
CreditSelectionWitness ==
    /\ pc = "credit_selected"
    /\ customers[1].engagement_balance = -16
    /\ today - customers[1].last_gift = 91
    /\ customers[1].activity_type = "purchase_main"
    /\ result.email_type = "GIFT_POINTS"

\* C17: for a customer with days_since_last_email >= 0, rates in [0, 1] and
\* non-negative amounts, calculate_priority_score lies in [0, 100], its five
\* terms lie in [0, 30], [0, 25], [0, 20], [0, 15] and [0, 10], and an engine
\* built for another warehouse on another day returns the same score
ScoreInRange ==
    pc = "scored" =>
        LET c == customers[1]
            Within(x, hi) == FCmp(x, FFromInt(0)) >= 0 /\ FCmp(x, FFromInt(hi)) <= 0
        IN  /\ c.days_since_last_email >= 0
               => /\ Within(result.score, 100)
                  /\ Within(result.balance, 30)
                  /\ Within(result.quality, 25)
                  /\ Within(result.dormancy, 20)
                  /\ Within(result.engagement, 15)
                  /\ Within(result.ltv, 10)
            /\ run = 2 => result = first

\* a customer whose balance of 70 is clipped to the full 30 points and who
\* reaches the top score of 100, scored a second time by another engine
ScoreInRangeWitness ==
    /\ pc = "scored"
    /\ run = 2
    /\ customers[1].engagement_balance = 70
    /\ customers[1].days_since_last_email = 400
    /\ FCmp(result.balance, FFromInt(30)) = 0
    /\ FCmp(result.score, FFromInt(100)) = 0
    /\ warehouse.emergency_level = 5
    /\ today = Today + 1

\* C18: the returned list is in non-increasing order of final priority, equal
\* priorities in roster order, where the final priority is
\* calculate_priority_score * tier weight (* 1.3 for a debt type in an
\* emergency) and 0 for a decision the classifier made SKIP
PriorityOrder ==
    pc = "done" =>
        /\ \A j \in 1..Len(filtered) :
              LET c == customers[filtered[j].customer]
                  t == determine_email_type(c, warehouse, today).email_type
                  boost == /\ warehouse.emergency_level >= 4
                           /\ t \in {"URGENT_KAITORI", "NORMAL_KAITORI"}
              IN  FCmp(filtered[j].priority_score,
                       IF t = "SKIP" THEN FFromInt(0)
                       ELSE PriorityTable[c.customer_id][boost]) = 0
        /\ \A j, k \in 1..Len(filtered) :
              j < k =>
                 LET order == FCmp(filtered[j].priority_score, filtered[k].priority_score)
                 IN  /\ order >= 0
                     /\ order = 0 => filtered[j].customer < filtered[k].customer

\* three decisions returned, two of them of one non-zero priority, in another
\* order than the roster's
PriorityOrderWitness ==
    /\ pc = "done"
    /\ Len(filtered) = 3
    /\ filtered[1].customer # 1
    /\ \E j \in 1..2 :
          /\ FCmp(filtered[j].priority_score, filtered[j + 1].priority_score) = 0
          /\ FCmp(filtered[j].priority_score, FFromInt(0)) > 0
    /\ \E j \in 1..2 :
          FCmp(filtered[j].priority_score, filtered[j + 1].priority_score) > 0

\* C19: no step of build_priority_queue (classification, sort, allocation,
\* return) changes a CustomerProfile of the roster, the WarehouseContext or the
\* budget record; the projected balance is held by the decision only
InputsUnchanged ==
    [][(pc = "engine" \/ pc = "filter")
          => (customers' = customers /\ warehouse' = warehouse /\ budget' = budget)]_vars

\* a returned list with a sent decision whose projected balance differs from
\* the customer's engagement_balance, and with a decision demoted by the budget
InputsUnchangedWitness ==
    /\ pc = "done"
    /\ \E j \in 1..Len(filtered) :
          /\ filtered[j].email_type # "SKIP"
          /\ filtered[j].balance_after # customers[filtered[j].customer].engagement_balance
    /\ \E j \in 1..Len(filtered) : filtered[j].reason.text = "budget exceeded (credit)"

\* C20: in a warehouse that is not in emergency (emergency_level < 4) every
\* tier-C and tier-D customer of the returned list is a SKIP decision
LowTiersOnlyInEmergency ==
    pc = "done" =>
        \A j \in 1..Len(filtered) :
            /\ warehouse.emergency_level < 4
            /\ customers[filtered[j].customer].quality_tier \in {"C", "D"}
            => filtered[j].email_type = "SKIP"

\* C21: a row whose tier code is none of A, B, C, D is loaded as tier B and is
\* classified and scored exactly as the same row with the code B (tier term
\* 0.8 * 25 = 20)
UnknownTierAsB ==
    pc \in {"start", "budgeted", "engine", "classified", "scored"} =>
        LET row  == df[1]
            asB  == load_row(("buyback_quality_tier" :> "B") @@ row, clock)
        IN  Get(row, "buyback_quality_tier", "B") \notin {"A", "B", "C", "D"}
            => /\ customers[1].quality_tier = "B"
               /\ pc = "classified" => result = determine_email_type(asB, warehouse, today)
               /\ pc = "scored" => FCmp(result.quality, FFromInt(20)) = 0

\* a row with the tier code E, classified for a normal buyback request on a
\* slack day as a tier-B customer is
UnknownTierAsBWitness ==
    /\ pc = "classified"
    /\ "buyback_quality_tier" \in DOMAIN df[1]
    /\ df[1]["buyback_quality_tier"] = "E"
    /\ warehouse.emergency_level = 3
    /\ Len(warehouse.slack_days) > 0
    /\ result.email_type = "NORMAL_KAITORI"

\* C22: every customer the classifier and the ranker are given has
\* days_since_last_email >= 0: a last e-mail date after `now` is loaded as 0
DaysSinceNonNegative ==
    pc \in {"start", "budgeted", "engine", "classified", "scored"} =>
        /\ customers[1].days_since_last_email >= 0
        /\ df[1]["last_email_date"] > clock => customers[1].days_since_last_email = 0

\* C23: the three V1 implementations give the same urgency for every backlog
\* and forecast: high iff backlog < 100 and at least 3 slack days, otherwise
\* medium iff backlog < 150 and at least 1 slack day, otherwise low
UrgencyAgreement ==
    DOMAIN result = {"smart_mailer", "ai_mailer", "full_dashboard"} =>
        LET slack == Cardinality({d \in 1..Len(warehouse.weekly_forecast) :
                                     warehouse.weekly_forecast[d] < warehouse.slack_threshold})
            rule  == IF warehouse.backlog_boxes < 100 /\ slack >= 3 THEN "high"
                     ELSE IF warehouse.backlog_boxes < 150 /\ slack >= 1 THEN "medium"
                     ELSE "low"
        IN  /\ result["smart_mailer"] = rule
            /\ result["ai_mailer"] = rule
            /\ result["full_dashboard"] = rule

\* C24: calculate_customer_score is the sum of four terms, response rate
\* (weight 40), dormancy window (25), lifetime buyback amount (20) and send
\* cadence (15); each term lies between 0 and its weight and the score in
\* [0, 100]
CustomerScoreInRange ==
    pc = "select" =>
        \A k \in 1..Len(df) :
            LET row == df[k]
                Within(x, hi) == FCmp(x, FFromInt(0)) >= 0 /\ FCmp(x, FFromInt(hi)) <= 0
            IN  /\ Within(row["score"], 100)
                /\ Within(ResponseComponent(row), 40)
                /\ Within(FFromInt(DormancyComponentV1(row)), 25)
                /\ Within(FFromInt(AmountComponent(row)), 20)
                /\ Within(FFromInt(CadenceComponent(row, today)), 15)

\* C29: the expected application count of the summary is the sum of the
\* expected conversion rates of the selected customers rounded to one decimal,
\* and is at least the target when the selection stopped on reaching it
ExpectedApplications ==
    pc = "extracted" =>
        LET total == SumRates(df, Len(selected_indices))
        IN  /\ summary.expected = NpRound1(total)
            /\ FCmp(total, FFromInt(target_applications)) >= 0
               => FCmp(summary.expected, FFromInt(target_applications)) >= 0

\* C30: the selected customers are a prefix of the frame in descending score
\* order: the shortest prefix whose cumulative expected rate reaches the
\* target, the whole frame if none does, nothing for a target <= 0; no
\* selected customer has a strictly lower score than one left out
SelectedPrefix ==
    pc = "extracted" =>
        LET n == Len(selected_indices)
        IN  /\ n <= Len(df)
            /\ \A k \in 1..n : selected_indices[k] = df[k]["index"]
            /\ \A k \in 1..(Len(df) - 1) : FCmp(df[k]["score"], df[k + 1]["score"]) >= 0
            /\ n = Len(df) \/ FCmp(SumRates(df, n), FFromInt(target_applications)) >= 0
            /\ \A m \in 0..(n - 1) : FCmp(SumRates(df, m), FFromInt(target_applications)) < 0
            /\ target_applications <= 0 => n = 0
            /\ \A i \in 1..n : \A j \in (n + 1)..Len(df) :
                  FCmp(df[j]["score"], df[i]["score"]) <= 0

\* a frame of three rows given in another order than their scores, of which
\* the two best are selected because their rates add up to the target exactly
SelectedPrefixWitness ==
    /\ pc = "extracted"
    /\ Len(df) = 3
    /\ Len(selected_indices) = 2
    /\ target_applications = 1
    /\ FCmp(SumRates(df, 2), FFromInt(1)) = 0
    /\ selected_indices[1] # 0
    /\ FCmp(df[2]["score"], df[3]["score"]) > 0

\* C25: the returned list holds at most total_budget decisions that are sent
\* (debt, credit and neutral types together)
TotalBudgetRespect ==
    pc = "done" =>
        Cardinality({j \in 1..Len(filtered) : filtered[j].email_type # "SKIP"})
            <= budget.total_budget

\* C26: every returned decision has balance_after = engagement_balance +
\* balance_impact of the type it carries; a SKIP decision, also one demoted for
\* the budget, has balance_after = engagement_balance
BalanceAfterFinalType ==
    pc = "done" =>
        \A j \in 1..Len(filtered) :
            filtered[j].balance_after =
                customers[filtered[j].customer].engagement_balance
                    + BalanceImpact(filtered[j].email_type)

\* C27: when a debt (credit) candidate is demoted for the budget, exactly
\* debt_budget (credit_budget) candidates of the category are sent and each of
\* them has a final priority at least as high as the demoted one's
NoPriorityInversion ==
    pc = "done" =>
        \A j \in 1..Len(filtered) :
            /\ filtered[j].reason.text = "budget exceeded (debt)"
               => /\ CountCategory(filtered, "debt") = budget.debt_budget
                  /\ \A k \in 1..Len(filtered) :
                        filtered[k].email_type \in {"URGENT_KAITORI", "NORMAL_KAITORI"}
                        => FCmp(filtered[k].priority_score, filtered[j].priority_score) >= 0
            /\ filtered[j].reason.text = "budget exceeded (credit)"
               => /\ CountCategory(filtered, "credit") = budget.credit_budget
                  /\ \A k \in 1..Len(filtered) :
                        filtered[k].email_type \in {"GIFT_POINTS", "GIFT_INFO", "NEWS_STORY",
                                                    "THANK_YOU"}
                        => FCmp(filtered[k].priority_score, filtered[j].priority_score) >= 0

\* a roster given in ascending priority: the debt candidate listed first is
\* demoted and the one of strictly higher priority listed after it is sent
NoPriorityInversionWitness ==
    /\ pc = "done"
    /\ budget.debt_budget = 1
    /\ \E j, k \in 1..Len(filtered) :
          /\ filtered[j].reason.text = "budget exceeded (debt)"
          /\ filtered[k].email_type \in {"URGENT_KAITORI", "NORMAL_KAITORI"}
          /\ filtered[j].customer < filtered[k].customer
          /\ FCmp(filtered[k].priority_score, filtered[j].priority_score) > 0

\* C28: in a warehouse that is not in emergency (level <= 3) and has no slack
\* day, no customer is classified into a debt-category type
NoSolicitationWithoutSlack ==
    pc = "classified" =>
        (warehouse.emergency_level <= 3 /\ Len(warehouse.slack_days) = 0
            => result.email_type \notin {"URGENT_KAITORI", "NORMAL_KAITORI"})

\* a tier-A buyback customer eligible for solicitation and needing no credit,
\* at level 3 without slack days: an information e-mail
NoSolicitationWithoutSlackWitness ==
    /\ pc = "classified"
    /\ warehouse.emergency_level = 3
    /\ Len(warehouse.slack_days) = 0
    /\ customers[1].quality_tier = "A"
    /\ customers[1].activity_type = "buyback_main"
    /\ customers[1].days_since_last_email = 20
    /\ customers[1].engagement_balance = 10
    /\ today - customers[1].last_gift = 60
    /\ is_eligible_for_solicitation(customers[1], warehouse, today).ok
    /\ result.email_type = "NEWS_STORY"
====
